---- MODULE Spec2Model ----
(***************************************************************************)
(* Model of src/app/crew_definition.py: the HTML-to-text extractor         *)
(* fetch_url_content, its caller ResearchCrew.create_crew, and the tool    *)
(* analyze_proposal_with_gemini.                                           *)
(*                                                                         *)
(* A Python str is a sequence of one-element symbols.  Letters are "a" and *)
(* "b", whitespace is " ", "\n" and "\t", the characters of a script or    *)
(* style body are "s", and the characters of an href are "#", "J" (the     *)
(* prefix javascript:), "u" and "v".  A parsed document is a sequence of   *)
(* nodes; a node is a record with a tag ("text", "script", "style", "a"),  *)
(* the href attribute (hasHref, href), its string s and its children kids. *)
(***************************************************************************)
EXTENDS Integers, Sequences, FiniteSets, TLC

VARIABLES pc, url, response, outcome, url_content, scrape_task, callLog, getLog,
          gpc, api_key, response_text, gresult, modelCalls, toolLog

vars == <<pc, url, response, outcome, url_content, scrape_task, callLog, getLog,
          gpc, api_key, response_text, gresult, modelCalls, toolLog>>

fetchVars == <<pc, url, response, outcome, url_content, scrape_task, callLog, getLog>>

geminiVars == <<gpc, api_key, response_text, gresult, modelCalls, toolLog>>

----------------------------------------------------------------------------
(* Bounds of the model *)

MaxNodes == 3

MaxLen == 5

MaxCalls == 2

MaxResp == 5

MaxToolCalls == 2

(* Program constants *)

ContentLimit == 8000

----------------------------------------------------------------------------
(* Python str helpers *)

Whitespace == {" ", "\n", "\t"}

IsWs(c) == c \in Whitespace

MinOf(S) == CHOOSE x \in S : \A y \in S : x <= y

MaxOf(S) == CHOOSE x \in S : \A y \in S : x >= y

StrStrip(s) ==
  LET idx == {i \in 1..Len(s) : ~IsWs(s[i])}
  IN IF idx = {} THEN <<>> ELSE SubSeq(s, MinOf(idx), MaxOf(idx))

StartsWith(s, p) == Len(s) >= Len(p) /\ SubSeq(s, 1, Len(p)) = p

EndsWith(s, p) == Len(s) >= Len(p) /\ SubSeq(s, Len(s) - Len(p) + 1, Len(s)) = p

Contains(s, p) ==
  \E i \in 1..(Len(s) - Len(p) + 1) : SubSeq(s, i, i + Len(p) - 1) = p

Take(s, n) == IF Len(s) <= n THEN s ELSE SubSeq(s, 1, n)

RECURSIVE Flatten(_)
Flatten(ss) == IF ss = <<>> THEN <<>> ELSE Head(ss) \o Flatten(Tail(ss))

RECURSIVE Join(_, _)
Join(ss, sep) ==
  IF ss = <<>> THEN <<>>
  ELSE IF Len(ss) = 1 THEN Head(ss)
  ELSE Head(ss) \o sep \o Join(Tail(ss), sep)

(* s.split(sep) for a non-empty separator: left to right, non-overlapping; *)
(* always at least one piece.                                              *)
RECURSIVE Split(_, _)
Split(s, sep) ==
  LET hits == {i \in 1..(Len(s) - Len(sep) + 1) : SubSeq(s, i, i + Len(sep) - 1) = sep}
  IN IF hits = {} THEN <<s>>
     ELSE LET i == MinOf(hits)
          IN <<SubSeq(s, 1, i - 1)>> \o Split(SubSeq(s, i + Len(sep), Len(s)), sep)

(* s.splitlines(): no line for an empty string or after a final newline *)
SplitLines(s) ==
  IF s = <<>> THEN <<>>
  ELSE LET p == Split(s, <<"\n">>)
       IN IF p[Len(p)] = <<>> THEN SubSeq(p, 1, Len(p) - 1) ELSE p

RECURSIVE MapStrip(_)
MapStrip(ss) == IF ss = <<>> THEN <<>> ELSE <<StrStrip(Head(ss))>> \o MapStrip(Tail(ss))

NonEmpty(s) == s # <<>>

----------------------------------------------------------------------------
(* The parsed document *)

TextNode(str) == [tag |-> "text", hasHref |-> FALSE, href |-> <<>>, s |-> str, kids |-> <<>>]

RawNode(t) == [tag |-> t, hasHref |-> FALSE, href |-> <<>>, s |-> <<"s">>, kids |-> <<>>]

Anchor(attr, ks) == [tag |-> "a", hasHref |-> attr.hasHref, href |-> attr.href, s |-> <<>>, kids |-> ks]

RawTags == {"script", "style"}

RECURSIVE RemoveScriptTagOnly(_)
RemoveScriptTagOnly(nodes) ==
  IF nodes = <<>> THEN <<>>
  ELSE LET n == Head(nodes)
       IN IF n.tag = "script"
          THEN RemoveScriptTagOnly(Tail(nodes))
          ELSE <<[n EXCEPT !.kids = RemoveScriptTagOnly(n.kids)]>> \o RemoveScriptTagOnly(Tail(nodes))

(* doc(tags) / tag.decompose() for every match: the matching elements are  *)
(* removed wherever they are in the tree.                                  *)
RECURSIVE RemoveScripts(_)
RemoveScripts(nodes) ==
  IF nodes = <<>> THEN <<>>
  ELSE LET n == Head(nodes)
       IN IF n.tag \in RawTags
          THEN RemoveScripts(Tail(nodes))
          ELSE <<[n EXCEPT !.kids = RemoveScripts(n.kids)]>> \o RemoveScripts(Tail(nodes))

(* The strings of a subtree in document order *)
RECURSIVE Strings(_)
Strings(nodes) ==
  IF nodes = <<>> THEN <<>>
  ELSE LET n == Head(nodes)
       IN (IF n.tag = "a" THEN Strings(n.kids) ELSE <<n.s>>) \o Strings(Tail(nodes))

(* soup.get_text(): every string, unstripped, joined by "" *)
GetText(nodes) == Flatten(Strings(nodes))

(* link.get_text(strip=True): every string stripped, empty ones skipped *)
GetTextStrip(node) == Flatten(SelectSeq(MapStrip(Strings(<<node>>)), NonEmpty))

(* soup.find_all('a', href=True): paths of the anchors carrying an href    *)
(* attribute, in document order, collected before the loop runs.           *)
RECURSIVE FindAllFrom(_, _, _)
FindAllFrom(nodes, prefix, i) ==
  IF i > Len(nodes) THEN <<>>
  ELSE LET n == nodes[i]
           p == Append(prefix, i)
       IN (IF n.tag = "a" /\ n.hasHref THEN <<p>> ELSE <<>>)
          \o FindAllFrom(n.kids, p, 1)
          \o FindAllFrom(nodes, prefix, i + 1)

FindAllLinks(nodes) == FindAllFrom(nodes, <<>>, 1)

RECURSIVE NodeAt(_, _)
NodeAt(nodes, path) ==
  IF Len(path) = 1 THEN nodes[path[1]]
  ELSE NodeAt(nodes[path[1]].kids, Tail(path))

RECURSIVE ReplaceAt(_, _, _)
ReplaceAt(nodes, path, new) ==
  IF Len(path) = 1 THEN [nodes EXCEPT ![path[1]] = new]
  ELSE [nodes EXCEPT ![path[1]] =
          [@ EXCEPT !.kids = ReplaceAt(nodes[path[1]].kids, Tail(path), new)]]

IsProperPrefix(q, p) == Len(q) < Len(p) /\ SubSeq(p, 1, Len(q)) = q

QualifiesFragmentToo(href, text) ==
  /\ href # <<>>
  /\ text # <<>>
  /\ ~StartsWith(href, <<"J">>)

(* the condition of line 40 *)
Qualifies(href, text) ==
  /\ href # <<>>
  /\ text # <<>>
  /\ ~StartsWith(href, <<"#">>)
  /\ ~StartsWith(href, <<"J">>)

(* f"[{text}]({href})" *)
LinkToken(text, href) == <<"[">> \o text \o <<"]", "(">> \o href \o <<")">>

(* The loop of lines 36-42.  replaced holds the paths already replaced by  *)
(* a string: an anchor below one of them was taken out of the document     *)
(* with its ancestor, and replace_with on it changes the detached subtree  *)
(* only.                                                                   *)
RECURSIVE RewriteFrom(_, _, _, _)
RewriteFrom(soup, links, i, replaced) ==
  IF i > Len(links) THEN soup
  ELSE LET p == links[i]
           detached == \E q \in replaced : IsProperPrefix(q, p)
       IN IF detached THEN RewriteFrom(soup, links, i + 1, replaced)
          ELSE LET link == NodeAt(soup, p)
                   text == GetTextStrip(link)
               IN IF Qualifies(link.href, text)
                  THEN RewriteFrom(ReplaceAt(soup, p, TextNode(LinkToken(text, link.href))),
                                   links, i + 1, replaced \cup {p})
                  ELSE RewriteFrom(soup, links, i + 1, replaced)

RewriteLinks(soup) == RewriteFrom(soup, FindAllLinks(soup), 1, {})

RECURSIVE ChunksOnOneSpace(_)
ChunksOnOneSpace(lines) ==
  IF lines = <<>> THEN <<>>
  ELSE MapStrip(Split(Head(lines), <<" ">>)) \o ChunksOnOneSpace(Tail(lines))

(* line 49: the phrases of every stripped line, stripped *)
RECURSIVE Chunks(_)
Chunks(lines) ==
  IF lines = <<>> THEN <<>>
  ELSE MapStrip(Split(Head(lines), <<" ", " ">>)) \o Chunks(Tail(lines))

CleanChunksKeepEmpty(text) == Chunks(MapStrip(SplitLines(text)))

(* lines 48-50 *)
CleanChunks(text) == SelectSeq(Chunks(MapStrip(SplitLines(text))), NonEmpty)

CleanWhitespace(text) == Join(CleanChunks(text), <<"\n">>)

(* lines 29-52, the success path *)
ExtractText(body) == CleanWhitespace(GetText(RewriteLinks(RemoveScripts(body))))

----------------------------------------------------------------------------
(* The pages the web can serve *)

TextChars == {"a", "b", " ", "\n", "\t"}

StrsUpTo(n) == UNION {[1..k -> TextChars] : k \in 0..n}

DocTexts == {<<"a">>, <<"a", " ", " ", "b">>, <<" ">>}

HrefAttrs ==
  {[hasHref |-> FALSE, href |-> <<>>]}
  \cup {[hasHref |-> TRUE, href |-> h] : h \in {<<>>, <<"#", "u">>, <<"J", "u">>, <<"u">>, <<"v">>}}

LeafNodes ==
  {TextNode(t) : t \in DocTexts} \cup {RawNode(t) : t \in RawTags}
  \cup {Anchor(at, <<>>) : at \in HrefAttrs}

(* the documents of exactly n nodes; only an anchor has children *)
RECURSIVE ForestsOfSize(_), TreesOfSize(_)
TreesOfSize(n) ==
  IF n = 1 THEN LeafNodes
  ELSE {Anchor(at, f) : at \in HrefAttrs, f \in ForestsOfSize(n - 1)}

ForestsOfSize(n) ==
  IF n = 0 THEN {<<>>}
  ELSE UNION {{<<t>> \o f : t \in TreesOfSize(k), f \in ForestsOfSize(n - k)} : k \in 1..n}

(* the parser joins adjacent character data into one string *)
RECURSIVE Parsed(_)
Parsed(nodes) ==
  /\ \A i \in 1..(Len(nodes) - 1) : ~(nodes[i].tag = "text" /\ nodes[i + 1].tag = "text")
  /\ \A i \in 1..Len(nodes) : Parsed(nodes[i].kids)

(* the parsed documents of up to MaxNodes - 1 nodes, by size *)
Forests == [n \in 0..(MaxNodes - 1) |-> {d \in ForestsOfSize(n) : Parsed(d)}]

(* the elements of k nodes a document can start with *)
FirstTrees(k) ==
  IF k = 1 THEN LeafNodes
  ELSE {Anchor(at, f) : at \in HrefAttrs, f \in Forests[k - 1]}

(* the sizes of the first element and of the rest of a non-empty document *)
PageShapes == {sh \in (1..MaxNodes) \X (0..(MaxNodes - 1)) : sh[1] + sh[2] <= MaxNodes}

TextPages == {<<TextNode(t)>> : t \in StrsUpTo(MaxLen) \ {<<>>}}

Urls == {"url1", "url2"}

StatusCodes == {200, 404, 500}

----------------------------------------------------------------------------
(* fetch_url_content *)

NoResponse == [status |-> 0, body |-> <<>>]

NoTask == [built |-> FALSE, content |-> <<>>]

(* response.raise_for_status() raises HTTPError for 4xx and 5xx *)
RaisesForStatus(code) == code >= 400 /\ code < 600

ExceptionTypes == {"Timeout", "HTTPError", "ParserError"}

(* str(e), one symbol per message *)
Message(type) == <<type>>

CatchesRequestErrorsOnly(type) == type \in {"Timeout", "HTTPError"}

(* line 53: except Exception *)
Catches(type) == type \in ExceptionTypes

(* line 54 *)
ErrorString(msg) == <<"Error fetching URL: ">> \o msg

(* an exception of the given type leaves the try block of lines 22-52 *)
Throw(type) ==
  IF Catches(type)
  THEN /\ url_content' = ErrorString(Message(type))
       /\ pc' = "fetched"
  ELSE /\ url_content' = <<>>
       /\ pc' = "raised"

Init ==
  /\ pc = "idle"
  /\ url = "none"
  /\ response = NoResponse
  /\ outcome = "none"
  /\ url_content = <<>>
  /\ scrape_task = NoTask
  /\ callLog = <<>>
  /\ getLog = <<>>
  /\ gpc = "idle"
  /\ api_key = "unset"
  /\ response_text = <<>>
  /\ gresult = <<>>
  /\ modelCalls = 0
  /\ toolLog = <<>>

(* create_crew(url), lines 164-167: the call of fetch_url_content *)
CreateCrew ==
  /\ pc \in {"idle", "crew_created"}
  /\ Len(callLog) < MaxCalls
  /\ \E u \in Urls :
       /\ url' = u
       /\ callLog' = Append(callLog, u)
  /\ pc' = "get"
  /\ response' = NoResponse
  /\ outcome' = "none"
  /\ url_content' = <<>>
  /\ scrape_task' = NoTask
  /\ UNCHANGED <<getLog, geminiVars>>

GetTimesOutAndRetries ==
  /\ pc = "get"
  /\ getLog' = getLog \o <<url, url>>
  /\ outcome' = "timeout"
  /\ Throw("Timeout")
  /\ UNCHANGED <<url, response, scrape_task, callLog, geminiVars>>

(* requests.get raises requests.Timeout after 30 seconds *)
GetTimesOut ==
  /\ pc = "get"
  /\ getLog' = Append(getLog, url)
  /\ outcome' = "timeout"
  /\ Throw("Timeout")
  /\ UNCHANGED <<url, response, scrape_task, callLog, geminiVars>>

(* requests.get returns a 4xx/5xx response and raise_for_status raises *)
GetBadStatus ==
  /\ pc = "get"
  /\ \E code \in StatusCodes :
       /\ RaisesForStatus(code)
       /\ response' = [status |-> code, body |-> <<>>]
  /\ getLog' = Append(getLog, url)
  /\ outcome' = "status"
  /\ Throw("HTTPError")
  /\ UNCHANGED <<url, scrape_task, callLog, geminiVars>>

(* the response is a success but BeautifulSoup or the tree walk raises *)
GetParseFails ==
  /\ pc = "get"
  /\ \E code \in StatusCodes :
       /\ ~RaisesForStatus(code)
       /\ response' = [status |-> code, body |-> <<>>]
  /\ getLog' = Append(getLog, url)
  /\ outcome' = "parse"
  /\ Throw("ParserError")
  /\ UNCHANGED <<url, scrape_task, callLog, geminiVars>>

(* lines 29-52 for the parsed body of a success response *)
Succeed(code, body) ==
  /\ response' = [status |-> code, body |-> body]
  /\ url_content' = ExtractText(body)

(* the success path, lines 26-52: the body is an empty page, a page of one *)
(* text, or a document of up to MaxNodes nodes                             *)
GetOk ==
  /\ pc = "get"
  /\ \E code \in StatusCodes :
       /\ ~RaisesForStatus(code)
       /\ \/ Succeed(code, <<>>)
          \/ \E body \in TextPages : Succeed(code, body)
          \/ \E sh \in PageShapes :
               \E t \in FirstTrees(sh[1]), f \in Forests[sh[2]] :
                 /\ Parsed(<<t>> \o f)
                 /\ Succeed(code, <<t>> \o f)
  /\ getLog' = Append(getLog, url)
  /\ outcome' = "ok"
  /\ pc' = "fetched"
  /\ UNCHANGED <<url, scrape_task, callLog, geminiVars>>

(* create_crew, lines 226-246: the scrape task embeds url_content[:8000] *)
BuildScrapeTask ==
  /\ pc = "fetched"
  /\ scrape_task' = [built |-> TRUE, content |-> Take(url_content, ContentLimit)]
  /\ pc' = "crew_created"
  /\ response' = NoResponse
  /\ UNCHANGED <<url, outcome, url_content, callLog, getLog, geminiVars>>

----------------------------------------------------------------------------
(* analyze_proposal_with_gemini.  The symbols of a response are "F" (the   *)
(* code fence of three backquotes), "json", "v" (a JSON value), " "        *)
(* (whitespace) and "x" (text that is not JSON).                           *)

RespChars == {"F", "json", "v", " ", "x"}

Responses == UNION {[1..k -> RespChars] : k \in 0..MaxResp}

KeyValues == {"unset", "empty", "set"}

(* not gemini_api_key: os.getenv gave None or "" *)
KeyMissing(k) == k \in {"unset", "empty"}

(* json.dumps({"error": msg}) *)
ErrorJson(msg) == <<"{", "error:", msg, "}">>

NotConfigured == "GEMINI_API_KEY not configured"

AnalyzeError == "Error analyzing proposal: ..."

(* json.loads(text) succeeds: one value, whitespace allowed around it *)
IsJson(text) ==
  LET t == StrStrip(text)
  IN \/ t = <<"v">>
     \/ /\ Len(t) = 4
        /\ t[1] = "{"
        /\ t[2] = "error:"
        /\ t[3] \in {NotConfigured, AnalyzeError}
        /\ t[4] = "}"

ValidateNothing(text) == TRUE

(* line 139: json.loads raises on text that is not JSON *)
Validate(text) == IsJson(text)

(* lines 126-136 *)
StripFences(text) ==
  LET t0 == StrStrip(text)
      t1 == IF StartsWith(t0, <<"F", "json">>) THEN SubSeq(t0, 3, Len(t0)) ELSE t0
      t2 == IF StartsWith(t1, <<"F">>) THEN SubSeq(t1, 2, Len(t1)) ELSE t1
      t3 == IF EndsWith(t2, <<"F">>) THEN SubSeq(t2, 1, Len(t2) - 1) ELSE t2
  IN StrStrip(t3)

(* line 142: except Exception *)
ToolCatches(type) == type \in {"APIError", "JSONDecodeError"}

(* an exception of the given type leaves the try block of lines 70-141 *)
ToolThrow(type) ==
  IF ToolCatches(type)
  THEN /\ gresult' = ErrorJson(AnalyzeError)
       /\ gpc' = "returned"
  ELSE /\ gresult' = <<>>
       /\ gpc' = "raised"

(* lines 70-79: the call, up to the request to the hosted model *)
AnalyzeProposal ==
  /\ gpc \in {"idle", "returned"}
  /\ Len(toolLog) < MaxToolCalls
  /\ response_text' = <<>>
  /\ \E k \in KeyValues :
       /\ api_key' = k
       /\ toolLog' = Append(toolLog, k)
       /\ IF KeyMissing(k)
          THEN /\ gresult' = ErrorJson(NotConfigured)
               /\ gpc' = "returned"
          ELSE /\ gresult' = <<>>
               /\ gpc' = "generate"
  /\ UNCHANGED <<modelCalls, fetchVars>>

(* line 123 or 126: generate_content or response.text raises *)
GenerateFails ==
  /\ gpc = "generate"
  /\ modelCalls' = modelCalls + 1
  /\ ToolThrow("APIError")
  /\ UNCHANGED <<api_key, response_text, toolLog, fetchVars>>

(* lines 123-141: the model answers *)
GenerateResponds ==
  /\ gpc = "generate"
  /\ modelCalls' = modelCalls + 1
  /\ \E r \in Responses :
       /\ response_text' = r
       /\ IF Validate(StripFences(r))
          THEN /\ gresult' = StripFences(r)
               /\ gpc' = "returned"
          ELSE ToolThrow("JSONDecodeError")
  /\ UNCHANGED <<api_key, toolLog, fetchVars>>

NextGemini ==
  \/ AnalyzeProposal
  \/ GenerateFails
  \/ GenerateResponds

SpecGemini == Init /\ [][NextGemini]_vars

Next ==
  \/ CreateCrew
  \/ GetTimesOut
  \/ GetBadStatus
  \/ GetParseFails
  \/ GetOk
  \/ BuildScrapeTask

Spec == Init /\ [][Next]_vars

----------------------------------------------------------------------------
(* Vocabulary of the properties *)

Letters == {"a", "b"}

IsLetter(c) == c \in Letters

NotWs(c) == c \notin Whitespace

(* a successful call of fetch_url_content has just returned *)
FetchedOk == pc = "fetched" /\ outcome = "ok"

(* a failed call of fetch_url_content has just returned *)
FetchedError == pc = "fetched" /\ outcome # "ok"

(* every anchor element of a document, in document order *)
RECURSIVE AnchorsFrom(_, _)
AnchorsFrom(nodes, i) ==
  IF i > Len(nodes) THEN <<>>
  ELSE (IF nodes[i].tag = "a" THEN <<nodes[i]>> ELSE <<>>)
       \o AnchorsFrom(nodes[i].kids, 1)
       \o AnchorsFrom(nodes, i + 1)

Anchors(nodes) == AnchorsFrom(nodes, 1)

(* the strings a reader sees: those outside script and style elements *)
RECURSIVE VisibleStrings(_)
VisibleStrings(nodes) ==
  IF nodes = <<>> THEN <<>>
  ELSE LET n == Head(nodes)
       IN (IF n.tag = "a" THEN VisibleStrings(n.kids)
           ELSE IF n.tag = "text" THEN <<n.s>> ELSE <<>>)
          \o VisibleStrings(Tail(nodes))

VisibleText(nodes) == Flatten(VisibleStrings(nodes))

(* the trimmed visible text of an anchor *)
AnchorText(n) == Flatten(SelectSeq(MapStrip(VisibleStrings(<<n>>)), NonEmpty))

(* non-empty text and a non-empty, non-fragment, non-script href *)
IsLinkAnchor(n) ==
  /\ n.hasHref
  /\ n.href # <<>>
  /\ n.href[1] \notin {"#", "J"}
  /\ AnchorText(n) # <<>>

TokenOf(n) == <<"[">> \o AnchorText(n) \o <<"]", "(">> \o n.href \o <<")">>

HasRun(s, c, k) == \E i \in 1..(Len(s) - k + 1) : \A j \in i..(i + k - 1) : s[j] = c

(* the number of markdown link tokens in a string *)
TokenCount(s) == Cardinality({i \in 1..(Len(s) - 1) : s[i] = "]" /\ s[i + 1] = "("})

(* the tokens occur in s one after the other, in this order *)
RECURSIVE InOrder(_, _)
InOrder(s, tokens) ==
  IF tokens = <<>> THEN TRUE
  ELSE LET t == Head(tokens)
           hits == {i \in 1..(Len(s) - Len(t) + 1) : SubSeq(s, i, i + Len(t) - 1) = t}
       IN /\ hits # {}
          /\ InOrder(SubSeq(s, MinOf(hits) + Len(t), Len(s)), Tail(tokens))

RECURSIVE MapToken(_)
MapToken(ns) == IF ns = <<>> THEN <<>> ELSE <<TokenOf(Head(ns))>> \o MapToken(Tail(ns))

LinkAnchors(nodes) == SelectSeq(Anchors(nodes), IsLinkAnchor)

RECURSIVE HasRaw(_)
HasRaw(nodes) ==
  \E i \in 1..Len(nodes) : nodes[i].tag \in RawTags \/ HasRaw(nodes[i].kids)

(* the lines of a string split on the newline character *)
LinesOf(s) == Split(s, <<"\n">>)

LineClean(l) == l # <<>> /\ ~IsWs(l[1]) /\ ~IsWs(l[Len(l)])

AllLinesClean(s) == \A i \in 1..Len(LinesOf(s)) : LineClean(LinesOf(s)[i])

ErrorPrefix == "Error fetching URL: "

----------------------------------------------------------------------------
(* C1: after a successful fetch, every anchor of the page with a non-empty *)
(* href that starts with neither # nor javascript: and with non-empty      *)
(* trimmed text T has its token [T](href) as a contiguous substring of the *)
(* returned string, whatever T contains.                                   *)
C1_EveryLinkTokenPresent ==
  FetchedOk =>
    \A i \in 1..Len(Anchors(response.body)) :
      LET n == Anchors(response.body)[i]
      IN IsLinkAnchor(n) => Contains(url_content, TokenOf(n))

(* C2: after a successful fetch, every qualifying anchor is represented by *)
(* exactly one markdown link token and the tokens follow document order,   *)
(* nested qualifying anchors included.                                     *)
C2_OneTokenPerLinkInOrder ==
  FetchedOk =>
    /\ TokenCount(url_content) = Len(LinkAnchors(response.body))
    /\ InOrder(url_content, MapToken(LinkAnchors(response.body)))

(* C3: after a successful fetch, no anchor whose href is empty or starts   *)
(* with # or javascript:, or whose visible text is empty, is rendered as a *)
(* link token: the output holds no token with such an href or with empty   *)
(* text, and no token of such an anchor; and the letters of the visible    *)
(* text of the page, those of the dropped anchors included, are all in the *)
(* output in their order.                                                  *)
C3_DroppedAnchorsStayPlainText ==
  FetchedOk =>
    /\ \A i \in 1..Len(url_content) :
         /\ url_content[i] = "(" =>
              i < Len(url_content) /\ url_content[i + 1] \notin {"#", "J", ")"}
         /\ url_content[i] = "[" =>
              i < Len(url_content) /\ url_content[i + 1] # "]"
    /\ \A i \in 1..Len(Anchors(response.body)) :
         LET n == Anchors(response.body)[i]
         IN ~IsLinkAnchor(n) => ~Contains(url_content, TokenOf(n))
    /\ SelectSeq(url_content, IsLetter) = SelectSeq(VisibleText(response.body), IsLetter)

C3_Witness ==
  /\ FetchedOk
  /\ \E i \in 1..Len(Anchors(response.body)) :
       LET n == Anchors(response.body)[i]
       IN n.hasHref /\ n.href # <<>> /\ n.href[1] \in {"#", "J"} /\ AnchorText(n) # <<>>
  /\ \E i \in 1..Len(url_content) : IsLetter(url_content[i])

(* C4: after a successful fetch, no character of a script or style element *)
(* of the page is in the returned string.                                  *)
C4_NoScriptOrStyleText ==
  FetchedOk => \A i \in 1..Len(url_content) : url_content[i] # "s"

C4_Witness ==
  /\ FetchedOk
  /\ HasRaw(response.body)
  /\ \E i \in 1..Len(Anchors(response.body)) : HasRaw(Anchors(response.body)[i].kids)
  /\ url_content # <<>>

(* C5 as stated: every string returned on the success path, split on the   *)
(* newline character, has no empty line and no line with leading or        *)
(* trailing whitespace, the output of an empty page included.              *)
C5_AllLinesClean ==
  FetchedOk => AllLinesClean(url_content)

(* C5 amended: every non-empty string returned on the success path, split  *)
(* on the newline character, has no empty line and no line with leading or *)
(* trailing whitespace; a page without visible non-whitespace text returns *)
(* the empty string.                                                       *)
C5_NonEmptyOutputLinesClean ==
  FetchedOk =>
    /\ url_content # <<>> => AllLinesClean(url_content)
    /\ SelectSeq(VisibleText(response.body), NotWs) = <<>> => url_content = <<>>

C5_Witness ==
  /\ FetchedOk
  /\ HasRun(VisibleText(response.body), " ", 3)
  /\ Len(LinesOf(url_content)) >= 2

(* C6: fetch_url_content never raises; after a timeout, a 4xx/5xx status   *)
(* or an exception while parsing it returns the one-line string            *)
(* "Error fetching URL: <message>" and no extracted text.                  *)
C6_ErrorsBecomeSentinel ==
  /\ pc # "raised"
  /\ FetchedError =>
       /\ Len(url_content) = 2
       /\ url_content[1] = ErrorPrefix
       /\ \A i \in 1..Len(url_content) : url_content[i] \notin {"\n"} \cup Letters

C6_Witness ==
  /\ FetchedError
  /\ outcome = "status"
  /\ response.status = 404

(* C7: every call of fetch_url_content issues exactly one GET, for its own *)
(* URL, whatever the outcome: no retry, and a second call for the same URL *)
(* issues a second request.                                                *)
C7_OneRequestPerCall ==
  IF pc = "get"
  THEN getLog = SubSeq(callLog, 1, Len(callLog) - 1)
  ELSE getLog = callLog

C7_Witness ==
  /\ pc = "fetched"
  /\ outcome = "timeout"
  /\ Len(callLog) = 2
  /\ callLog[1] = callLog[2]
  /\ Len(getLog) = 2

(* the response body is one text node holding one line *)
OneLinePage ==
  /\ Len(response.body) = 1
  /\ response.body[1].tag = "text"
  /\ \A i \in 1..Len(response.body[1].s) : response.body[1].s[i] # "\n"

(* C8: a line A<two spaces>B of the extracted text, A and B non-empty      *)
(* after trimming, gives the output lines A then B; a line without a run   *)
(* of two spaces is never split; and the characters of the output are      *)
(* those of the extracted text in their order.                             *)
C8_TwoSpacesSplitALine ==
  (FetchedOk /\ Len(response.body) = 1 /\ response.body[1].tag = "text") =>
    LET t == response.body[1].s
    IN /\ SelectSeq(url_content, NotWs) = SelectSeq(t, NotWs)
       /\ OneLinePage =>
            /\ \A i \in 1..(Len(t) - 1) :
                 LET A == SubSeq(t, 1, i - 1)
                     B == SubSeq(t, i + 2, Len(t))
                 IN (/\ t[i] = " " /\ t[i + 1] = " "
                     /\ ~HasRun(A, " ", 2) /\ ~HasRun(B, " ", 2)
                     /\ StrStrip(A) # <<>> /\ StrStrip(B) # <<>>)
                    => url_content = StrStrip(A) \o <<"\n">> \o StrStrip(B)
            /\ ~HasRun(t, " ", 2) => url_content = StrStrip(t)

C8_Witness ==
  /\ FetchedOk
  /\ OneLinePage
  /\ response.body[1].s = <<"a", " ", " ", "b">>
  /\ url_content = <<"a", "\n", "b">>

(* C9: when fetch_url_content returned the error string, create_crew does  *)
(* not put that string into the scrape task as page content.               *)
C9_CallerChecksSentinel ==
  (scrape_task.built /\ outcome # "ok") => ~Contains(scrape_task.content, <<ErrorPrefix>>)

----------------------------------------------------------------------------
IsErrorJson(t) == t \in {ErrorJson(NotConfigured), ErrorJson(AnalyzeError)}

IsFenceOrWs(c) == c \in {"F", "json", " "}

(* t is r without leading fences, fence labels and whitespace and without  *)
(* trailing fences and whitespace                                          *)
IsUnfenced(t, r) ==
  \E i \in 1..(Len(r) + 1) : \E j \in 0..Len(r) :
    /\ t = SubSeq(r, i, j)
    /\ \A k \in 1..(i - 1) : IsFenceOrWs(r[k])
    /\ \A k \in (j + 1)..Len(r) : IsFenceOrWs(r[k])

(* a JSON value alone, or between a leading fence and a trailing fence *)
WellFenced ==
  {<<"v">>, <<"F", "json", " ", "v", "F">>, <<"F", " ", "v", " ", "F">>,
   <<"F", "json", "v", " ", "F">>, <<"F", "v", "F">>, <<" ", "v", " ">>}

KeySet(k) == k = "set"

(* C10: analyze_proposal_with_gemini never raises and every string it      *)
(* returns parses as JSON: either the object with the single key error, or *)
(* the response of the model without its fences and surrounding            *)
(* whitespace, and that only when it parses as JSON; without               *)
(* GEMINI_API_KEY the result is the error object and the hosted model has  *)
(* been called once for every call made with a key, never for one without. *)
C10_ToolReturnsJson ==
  /\ gpc # "raised"
  /\ modelCalls = Len(SelectSeq(toolLog, KeySet)) - (IF gpc = "generate" THEN 1 ELSE 0)
  /\ gpc = "returned" =>
       /\ IsJson(gresult)
       /\ KeyMissing(api_key) => gresult = ErrorJson(NotConfigured)
       /\ \/ IsErrorJson(gresult)
          \/ /\ ~KeyMissing(api_key)
             /\ IsUnfenced(gresult, response_text)
       /\ response_text \in WellFenced => gresult = <<"v">>

C10_Witness ==
  /\ gpc = "returned"
  /\ response_text = <<"F", "json", " ", "v", "F">>
  /\ gresult = <<"v">>
  /\ Len(toolLog) = 2
  /\ toolLog[1] = "unset"
  /\ modelCalls = 1

====
